---------------------------- MODULE Spec2Model ----------------------------
(***************************************************************************)
(* Model of gearnode/ar: a sequential Writer and a sequential Reader of    *)
(* the Unix ar archive format (writer.go, reader.go).                      *)
(*                                                                         *)
(* Bytes are integers (their ASCII codes); a byte stream is a sequence of  *)
(* bytes.  A Header is a record [Name, Date, Uid, Gid, Mode, Size] where   *)
(* Name is a sequence of bytes and Date is the Unix time in seconds (what  *)
(* header.Date.Unix() yields and time.Unix(date, 0) takes).                *)
(*                                                                         *)
(* SpecW : a caller drives a Writer onto an in-memory stream.             *)
(* SpecR : a caller hands NewReader an archive laid out byte-exactly as    *)
(*         the format prescribes, cut at any position or with a damaged    *)
(*         magic prefix, and drives the Reader.                            *)
(* Spec  : a caller drives a Writer onto an in-memory stream and then      *)
(*         hands that stream to NewReader and drives the Reader.           *)
(* SpecT : as SpecR, over archives in which one or both bytes of one       *)
(*         record's terminator are damaged.                                *)
(* SpecH : a caller writes Headers with names and numbers at the limits    *)
(*         of the record's fields (empty, padded, too wide, negative) and  *)
(*         hands the stream to NewReader.                                  *)
(***************************************************************************)
EXTENDS Integers, Sequences, FiniteSets, TLC

VARIABLES
    stream,   \* the bytes of the underlying in-memory stream
    arch,     \* the entries the stream is meant to hold: <<[hdr, data]>>
    hoff,     \* offset in stream at which each WriteHeader began
    w_n,      \* Writer.n
    wret,     \* what the last Writer call was given and returned
    wcalls,   \* number of Write calls made
    rd,       \* "none": no NewReader yet, "open": a Reader, "nil": NewReader failed
    pos,      \* read offset of the underlying stream
    r_n,      \* Reader.n
    r_p,      \* Reader.p
    rhdrs,    \* Headers returned by the successful Next calls, in order
    rdata,    \* per returned Header, the bytes Read has delivered since
    rret,     \* what the last Reader call was given and returned
    rfail     \* a Next has returned an error other than io.EOF

vars == <<stream, arch, hoff, w_n, wret, wcalls,
          rd, pos, r_n, r_p, rhdrs, rdata, rret, rfail>>
wvars == <<arch, hoff, w_n, wret, wcalls>>
rvars == <<rd, pos, r_n, r_p, rhdrs, rdata, rret, rfail>>

---------------------------------------------------------------------------
\* Bounds of the model.

MaxEntries == 2     \* entries per archive
MaxSize    == 2     \* largest Header.Size a caller declares
MaxBuf     == 2     \* largest buffer handed to Write or Read
MaxWrites  == 3     \* Write calls per run

---------------------------------------------------------------------------
\* Bytes and the format's constants.

SP == 32    \* ' '
NL == 10    \* '\n'
BQ == 96    \* '`'
MINUS == 45 \* '-'
PLUS == 43  \* '+'
ZERO == 48  \* '0'

MagicString == <<33, 60, 97, 114, 99, 104, 62, NL>>   \* "!<arch>\n"
HeaderByteSize == 60

Min(a, b) == IF a < b THEN a ELSE b

\* Go's slice expression b[0:k], and what copy(b, s) puts in a b of k bytes
Take(s, k) == SubSeq(s, 1, Min(k, Len(s)))

\* Go's % on int64 truncates towards zero: the result has the dividend's sign.
GoMod(a, m) == IF a >= 0 THEN a % m ELSE -((-a) % m)

---------------------------------------------------------------------------
\* strconv.FormatInt and strconv.ParseInt, for the bases 8 and 10.

RECURSIVE Digits(_, _)
Digits(i, base) ==
    IF i < base THEN <<ZERO + i>>
    ELSE Digits(i \div base, base) \o <<ZERO + (i % base)>>

FormatInt(i, base) ==
    IF i < 0 THEN <<MINUS>> \o Digits(-i, base) ELSE Digits(i, base)

IsDigit(c, base) == c >= ZERO /\ c < ZERO + base

RECURSIVE DigitsValue(_, _, _)
DigitsValue(s, base, acc) ==
    IF s = <<>> THEN acc
    ELSE DigitsValue(Tail(s), base, acc * base + (Head(s) - ZERO))

\* [ok |-> FALSE] is a *NumError; the fields are too narrow to overflow int64.
ParseInt(s, base) ==
    LET signed == s # <<>> /\ Head(s) \in {MINUS, PLUS}
        body   == IF signed THEN Tail(s) ELSE s
    IN  IF body = <<>> \/ \E k \in 1..Len(body) : ~IsDigit(body[k], base)
        THEN [ok |-> FALSE, val |-> 0]
        ELSE [ok |-> TRUE,
              val |-> IF signed /\ Head(s) = MINUS
                      THEN -DigitsValue(body, base, 0)
                      ELSE DigitsValue(body, base, 0)]

---------------------------------------------------------------------------
\* writer.go: the field encoders.  Each fills a slice of `width` bytes.

RECURSIVE PadRight(_, _)
PadRight(s, width) ==
    IF Len(s) < width THEN PadRight(s \o <<SP>>, width) ELSE s

writeString(width, s) == Take(PadRight(s, width), width)
writeInt(width, i)    == Take(PadRight(FormatInt(i, 10), width), width)

\* Variant of writeOctal: the number is rendered in decimal.
writeOctalDecimal(width, i) == Take(PadRight(FormatInt(i, 10), width), width)

writeOctal(width, i)  == Take(PadRight(FormatInt(i, 8), width), width)

\* The 60-byte record WriteHeader hands to the underlying stream.
HeaderRecord(h) ==
    writeString(16, h.Name) \o writeInt(12, h.Date) \o writeInt(6, h.Uid)
    \o writeInt(6, h.Gid) \o writeOctal(8, h.Mode) \o writeInt(10, h.Size)
    \o writeString(2, <<BQ, NL>>)

---------------------------------------------------------------------------
\* reader.go: the field decoders.

\* for i > 0 && b[i] == ' ' { i-- }; b[0:i+1]   (1-based here)
RECURSIVE TrimRight(_, _)
TrimRight(b, j) ==
    IF j > 1 /\ b[j] = SP THEN TrimRight(b, j - 1) ELSE SubSeq(b, 1, j)

readString(b) == TrimRight(b, Len(b))
readInt(b)    == ParseInt(TrimRight(b, Len(b)), 10)
readOctal(b)  == ParseInt(TrimRight(b, Len(b)), 8)

\* The test of the two terminator bytes: TRUE means "invalid header ending".
BadEnding(buf) == buf[59] # BQ /\ buf[60] # NL

\* Next, from the 60 bytes read on: [err, hdr].
ParseHeader(buf) ==
    LET date  == readInt(SubSeq(buf, 17, 28))
        uid   == readInt(SubSeq(buf, 29, 34))
        gid   == readInt(SubSeq(buf, 35, 40))
        mode  == readOctal(SubSeq(buf, 41, 48))
        fsize == readInt(SubSeq(buf, 49, 58))
    IN  IF BadEnding(buf) THEN [err |-> "format"]
        ELSE IF ~date.ok \/ ~uid.ok \/ ~gid.ok \/ ~mode.ok \/ ~fsize.ok
        THEN [err |-> "parse"]
        ELSE [err |-> "nil",
              hdr |-> [Name |-> readString(SubSeq(buf, 1, 16)),
                       Date |-> date.val, Uid |-> uid.val, Gid |-> gid.val,
                       Mode |-> mode.val, Size |-> fsize.val]]

---------------------------------------------------------------------------
\* The callers' inputs.

ShortName == <<100, 98>>                        \* "db"
LongName  == [k \in 1..16 |-> 96 + k]           \* "abcdefghijklmnop"
Sizes     == 0..MaxSize

HeaderOf(nm, s) ==
    [Name |-> nm, Date |-> 1650000000 + s, Uid |-> 1000, Gid |-> 50,
     Mode |-> 33188, Size |-> s]

Headers == {HeaderOf(IF s % 2 = 0 THEN ShortName ELSE LongName, s) : s \in Sizes}

\* The file a caller copies into an entry is "ABCD...": bytes off+1..off+len.
Payload(off, len) == [k \in 1..len |-> 64 + off + k]

\* A call's record: op the call, len the length of the buffer given, rem the
\* counter n and pos0 the stream offset when called, io whether the underlying
\* Read was called and req the length asked of it, n and err the values
\* returned, hdr whether a Header was returned.
NoRet == [op |-> "new", len |-> 0, req |-> 0, rem |-> 0, n |-> 0,
          err |-> "nil", hdr |-> FALSE, pos0 |-> 0, io |-> FALSE]

---------------------------------------------------------------------------
\* writer.go: Writer.

\* NewWriter: &Writer{io: w}.  No Reader exists yet.
Init ==
    /\ stream = <<>>
    /\ arch = <<>>
    /\ hoff = <<>>
    /\ w_n = 0
    /\ wret = NoRet
    /\ wcalls = 0
    /\ rd = "none"
    /\ pos = 0
    /\ r_n = 0
    /\ r_p = 0
    /\ rhdrs = <<>>
    /\ rdata = <<>>
    /\ rret = NoRet
    /\ rfail = FALSE

\* The caller writes the magic bytes once, before any header.
WriteMagicBytes ==
    /\ rd = "none"
    /\ wret.op = "new"
    /\ stream' = stream \o MagicString
    /\ wret' = [NoRet EXCEPT !.op = "WriteMagicBytes"]
    /\ UNCHANGED <<arch, hoff, w_n, wcalls>>
    /\ UNCHANGED rvars

\* WriteHeader writes the record and sets w.n; it tests nothing.
WriteHeader(h) ==
    /\ rd = "none"
    /\ wret.op # "new"
    /\ Len(arch) < MaxEntries
    /\ stream' = stream \o HeaderRecord(h)
    /\ w_n' = h.Size
    /\ arch' = Append(arch, [hdr |-> h, data |-> <<>>])
    /\ hoff' = Append(hoff, Len(stream))
    /\ wret' = [NoRet EXCEPT !.op = "WriteHeader"]
    /\ UNCHANGED wcalls
    /\ UNCHANGED rvars

\* Variant of TooLong: the test is off by one.
TooLongOffByOne(b, n) == Len(b) > n + 1

\* if int64(len(b)) > w.n
TooLong(b, n) == Len(b) > n

\* if len(b)%2 == 1 { b = append(b, '\n') }: what goes to w.io.Write
Padded(b) == IF Len(b) % 2 = 1 THEN b \o <<NL>> ELSE b

\* Writer.n after a Write that passed the test: Write assigns nothing to w.n.
BudgetAfter(n, b) == n

Write(len) ==
    /\ rd = "none"
    /\ arch # <<>>
    /\ wcalls < MaxWrites
    /\ wcalls' = wcalls + 1
    /\ LET cur == arch[Len(arch)]
           b   == Payload(Len(cur.data), len)
       IN  IF TooLong(b, w_n)
           THEN /\ wret' = [NoRet EXCEPT !.op = "Write", !.len = len,
                                         !.rem = w_n, !.pos0 = Len(stream),
                                         !.err = "ErrWriteTooLong"]
                /\ UNCHANGED <<stream, arch, w_n>>
           ELSE /\ stream' = stream \o Padded(b)
                /\ w_n' = BudgetAfter(w_n, b)
                /\ arch' = [arch EXCEPT ![Len(arch)].data = @ \o b]
                /\ wret' = [NoRet EXCEPT !.op = "Write", !.len = len,
                                         !.rem = w_n, !.pos0 = Len(stream),
                                         !.n = Len(Padded(b))]
    /\ UNCHANGED hoff
    /\ UNCHANGED rvars

---------------------------------------------------------------------------
\* reader.go: Reader.  The underlying stream is in memory: it fails only
\* by ending, and a Read of it may deliver fewer bytes than asked.

Avail == Len(stream) - pos

\* Variant of ReadFull: one r.Read(buf) in its place, which reports no error
\* when it delivers fewer bytes than asked and leaves the rest of buf zero.
ReadOnce(p, want) ==
    LET have == Len(stream) - p
    IN  IF have >= want
        THEN [err |-> "nil", buf |-> SubSeq(stream, p + 1, p + want), pos |-> p + want]
        ELSE IF have = 0
        THEN [err |-> "EOF", buf |-> <<>>, pos |-> Len(stream)]
        ELSE [err |-> "nil",
              buf |-> SubSeq(stream, p + 1, Len(stream)) \o [k \in 1..(want - have) |-> 0],
              pos |-> Len(stream)]

\* io.ReadFull(r, buf) for len(buf) = want, at offset p: [err, buf, pos]
ReadFull(p, want) ==
    LET have == Len(stream) - p
    IN  IF have >= want
        THEN [err |-> "nil", buf |-> SubSeq(stream, p + 1, p + want), pos |-> p + want]
        ELSE [err |-> IF have = 0 THEN "EOF" ELSE "ErrUnexpectedEOF",
              buf |-> SubSeq(stream, p + 1, Len(stream)), pos |-> Len(stream)]

\* Variant of IsMagic: the last magic byte is not compared.
IsMagicShort(mb) == Take(mb, 7) = Take(MagicString, 7)

\* bytes.Equal(mb, []byte("!<arch>\n"))
IsMagic(mb) == mb = MagicString

NewReader ==
    /\ rd = "none"
    /\ LET got == ReadFull(pos, 8)
       IN  /\ pos' = got.pos
           /\ IF got.err # "nil"
              THEN /\ rd' = "nil"
                   /\ rret' = [NoRet EXCEPT !.op = "NewReader", !.err = "read", !.pos0 = pos]
              ELSE IF ~IsMagic(got.buf)
              THEN /\ rd' = "nil"
                   /\ rret' = [NoRet EXCEPT !.op = "NewReader", !.err = "format", !.pos0 = pos]
              ELSE /\ rd' = "open"
                   /\ rret' = [NoRet EXCEPT !.op = "NewReader", !.pos0 = pos]
    /\ r_n' = 0
    /\ r_p' = 0
    /\ UNCHANGED <<rhdrs, rdata, rfail>>
    /\ UNCHANGED <<stream, wvars>>

\* Variant of NextErr: the error is replaced by a new one, as NewReader does.
NextErrWrapped(err) == "read"

\* if err != nil { return nil, err }: Next hands the error on as it is
NextErr(err) == err

\* Variant of SkipLen: the pending pad byte is forgotten.
SkipLenNoPad(n, p) == n

\* s := r.n + r.p
SkipLen(n, p) == n + p

\* skipUnread: io.CopyN(ioutil.Discard, r.io, s) gives io.EOF when the stream
\* ends before s bytes, and copies nothing when s <= 0.  [err, pos]
skipUnread(n, p) ==
    LET s == SkipLen(n, p)
    IN  IF s <= 0 THEN [err |-> "nil", pos |-> pos]
        ELSE IF Avail < s THEN [err |-> "EOF", pos |-> Len(stream)]
        ELSE [err |-> "nil", pos |-> pos + s]

Next ==
    /\ rd = "open"
    /\ LET sk  == skipUnread(r_n, r_p)
           got == ReadFull(sk.pos, HeaderByteSize)
           ph  == ParseHeader(got.buf)
           ret == [NoRet EXCEPT !.op = "Next", !.rem = r_n, !.pos0 = pos]
       IN  IF sk.err # "nil"
           THEN /\ pos' = sk.pos
                /\ rret' = [ret EXCEPT !.err = NextErr(sk.err)]
                /\ UNCHANGED <<r_n, r_p, rhdrs, rdata>>
           ELSE IF got.err # "nil"
           THEN /\ pos' = got.pos
                /\ r_n' = 0
                /\ r_p' = 0
                /\ rret' = [ret EXCEPT !.err = NextErr(got.err)]
                /\ UNCHANGED <<rhdrs, rdata>>
           ELSE IF ph.err # "nil"
           THEN /\ pos' = got.pos
                /\ r_n' = 0
                /\ r_p' = 0
                /\ rret' = [ret EXCEPT !.err = ph.err]
                /\ UNCHANGED <<rhdrs, rdata>>
           ELSE /\ pos' = got.pos
                /\ r_n' = ph.hdr.Size
                /\ r_p' = GoMod(ph.hdr.Size, 2)
                /\ rhdrs' = Append(rhdrs, ph.hdr)
                /\ rdata' = Append(rdata, <<>>)
                /\ rret' = [ret EXCEPT !.hdr = TRUE]
    /\ rfail' = (rfail \/ rret'.err \notin {"nil", "EOF"})
    /\ UNCHANGED rd
    /\ UNCHANGED <<stream, wvars>>

\* Variant of Exhausted: the test misses zero.
ExhaustedBelowZero(n) == n < 0

\* Variant of ReadCap: the buffer is not cut to the remaining count.
ReadCapNone(len, n) == len

\* if r.n == 0 { return 0, io.EOF }
Exhausted(n) == n = 0

\* if int64(len(b)) > r.n { b = b[0:r.n] }: the length asked of r.io.Read
ReadCap(len, n) == IF len > n THEN n ELSE len

\* Read with a buffer of `len` bytes, of which the underlying Read delivers k:
\* any k from 1 to the length asked while bytes are left, (0, io.EOF) at the
\* end of the stream.
Read(len, k) ==
    /\ rd = "open"
    /\ LET ret == [NoRet EXCEPT !.op = "Read", !.len = len, !.rem = r_n, !.pos0 = pos]
       IN  IF Exhausted(r_n)
           THEN /\ k = 0
                /\ rret' = [ret EXCEPT !.err = "EOF"]
                /\ UNCHANGED <<rd, pos, r_n, rdata>>
           ELSE IF len > r_n /\ r_n < 0
           THEN \* b[0:r.n] with a negative bound: run-time panic
                /\ k = 0
                /\ rd' = "panic"
                /\ rret' = [ret EXCEPT !.err = "panic"]
                /\ UNCHANGED <<pos, r_n, rdata>>
           ELSE LET req == ReadCap(len, r_n)
                IN  /\ k <= Min(req, Avail)
                    /\ k > 0 \/ req = 0 \/ Avail = 0
                    /\ pos' = pos + k
                    /\ r_n' = r_n - k
                    /\ rdata' = IF rdata = <<>> THEN rdata
                                ELSE [rdata EXCEPT ![Len(rdata)] =
                                          @ \o SubSeq(stream, pos + 1, pos + k)]
                    /\ rret' = [ret EXCEPT !.req = req, !.n = k, !.io = TRUE,
                                           !.err = IF Avail = 0 THEN "EOF" ELSE "nil"]
                    /\ UNCHANGED rd
    /\ UNCHANGED <<r_p, rhdrs, rfail>>
    /\ UNCHANGED <<stream, wvars>>

---------------------------------------------------------------------------
\* The wire layout of an archive: the magic bytes, then per entry the
\* 60-byte record, Size bytes of payload and one '\n' when Size is odd.

Pad(size) == IF size % 2 = 1 THEN <<NL>> ELSE <<>>

EntryBytes(e) == HeaderRecord(e.hdr) \o e.data \o Pad(e.hdr.Size)

RECURSIVE Archive(_)
Archive(es) ==
    IF es = <<>> THEN MagicString
    ELSE Archive(SubSeq(es, 1, Len(es) - 1)) \o EntryBytes(es[Len(es)])

\* Offset of the first byte of entry i's record in Archive(es).
HeaderOff(es, i) == Len(Archive(SubSeq(es, 1, i - 1)))

Entries  == {[hdr |-> h, data |-> Payload(0, h.Size)] : h \in Headers}
Archives == UNION {[1..n -> Entries] : n \in 0..MaxEntries}

\* The lengths at which Archive(es) is cut: every length that keeps at least
\* one byte of the last entry (a shorter cut is a cut of a shorter archive).
Cuts(es) ==
    IF es = <<>> THEN 0..Len(MagicString)
    ELSE (HeaderOff(es, Len(es)) + 1)..Len(Archive(es))

\* Archive(es) with byte i of the magic prefix replaced by '?'.
Damaged(es, i) == [Archive(es) EXCEPT ![i] = 63]

InitR ==
    /\ \E es \in Archives :
         /\ arch = es
         /\ hoff = [i \in 1..Len(es) |-> HeaderOff(es, i)]
         /\ \/ \E k \in Cuts(es) : stream = Take(Archive(es), k)
            \/ \E i \in 1..Len(MagicString) : stream = Damaged(es, i)
    /\ w_n = 0
    /\ wret = NoRet
    /\ wcalls = 0
    /\ rd = "none"
    /\ pos = 0
    /\ r_n = 0
    /\ r_p = 0
    /\ rhdrs = <<>>
    /\ rdata = <<>>
    /\ rret = NoRet
    /\ rfail = FALSE

---------------------------------------------------------------------------
\* The specifications.

\* SpecW: a caller drives the Writer.
NextW ==
    \/ WriteMagicBytes
    \/ \E h \in Headers : WriteHeader(h)
    \/ \E len \in 0..MaxBuf : Write(len)

SpecW == Init /\ [][NextW]_vars

\* SpecR: a caller drives the Reader over a given archive.
NextR ==
    \/ NewReader
    \/ Next
    \/ \E len \in 0..MaxBuf, k \in 0..MaxBuf : Read(len, k)

SpecR == InitR /\ [][NextR]_vars

\* Spec: a caller drives the Writer, then the Reader over the Writer's stream.
NextState == NextW \/ NextR

Spec == Init /\ [][NextState]_vars

---------------------------------------------------------------------------
\* SpecT: a caller drives the Reader over an archive in which the terminator
\* of one record is damaged: its first byte, its second byte, or both.

\* Archive(es) with the bytes at the offsets in `at` replaced by '?'.
DamagedAt(es, at) ==
    [k \in 1..Len(Archive(es)) |-> IF k \in at THEN 63 ELSE Archive(es)[k]]

\* The offsets (1-based) of the two terminator bytes of entry i's record.
Terminator(es, i) == {HeaderOff(es, i) + 59, HeaderOff(es, i) + 60}

InitT ==
    /\ \E es \in Archives \ {<<>>} :
         /\ arch = es
         /\ hoff = [i \in 1..Len(es) |-> HeaderOff(es, i)]
         /\ \E i \in 1..Len(es) :
              \E at \in (SUBSET Terminator(es, i)) \ {{}} :
                  stream = DamagedAt(es, at)
    /\ w_n = 0
    /\ wret = NoRet
    /\ wcalls = 0
    /\ rd = "none"
    /\ pos = 0
    /\ r_n = 0
    /\ r_p = 0
    /\ rhdrs = <<>>
    /\ rdata = <<>>
    /\ rret = NoRet
    /\ rfail = FALSE

SpecT == InitT /\ [][NextR]_vars

---------------------------------------------------------------------------
\* SpecH: a caller writes the records of Headers whose fields take the
\* shapes the codec must cope with, and reads them back.

EmptyName  == <<>>
SpacedName == <<100, SP>>                       \* "d "
WideName   == [k \in 1..17 |-> 96 + k]          \* "abcdefghijklmnopq"

HeadersH ==
    { [Name |-> EmptyName, Date |-> 0, Uid |-> 0, Gid |-> 0, Mode |-> 0, Size |-> 0],
      HeaderOf(ShortName, 0),
      HeaderOf(LongName, 1),
      HeaderOf(SpacedName, 0),
      HeaderOf(ShortName, -1),
      \* Name, Uid, Gid, Mode and Size one byte wider than their fields
      [Name |-> WideName, Date |-> 1650000000, Uid |-> 1234567,
       Gid |-> 7654321, Mode |-> 16777216, Size |-> -1234567890] }

NextH ==
    \/ WriteMagicBytes
    \/ \E h \in HeadersH : WriteHeader(h)
    \/ NextR

SpecH == Init /\ [][NextH]_vars

---------------------------------------------------------------------------
\* Vocabulary of the claims.

IsPrefix(s, t) == Len(s) <= Len(t) /\ s = SubSeq(t, 1, Len(s))

\* Every entry handed to the Writer got exactly Size bytes of payload.
Complete(i) == Len(arch[i].data) = arch[i].hdr.Size

\* What the stream holds from the end of entry i's record to the start of
\* the next record (to the end of the stream for the last entry).
Segment(i) ==
    SubSeq(stream, hoff[i] + HeaderByteSize + 1,
           IF i < Len(arch) THEN hoff[i + 1] ELSE Len(stream))

\* The stream is the whole archive of arch, or a cut of it.
WellFormed == stream = Archive(arch)
CutArchive == IsPrefix(stream, Archive(arch))

\* Number of Headers returned before the last Reader call.
Before == Len(rhdrs) - (IF rret.hdr THEN 1 ELSE 0)

\* Every entry returned before the current one was read to its end.
ReadToEnd(k) == \A j \in 1..k : Len(rdata[j]) = rhdrs[j].Size

---------------------------------------------------------------------------
\* C1 (Spec).  Round trip: when every entry got exactly Size bytes of
\* payload in one or more Write calls, NewReader accepts the stream, and a
\* caller who reads each entry to its end gets the Headers and the payloads
\* that were written, in order, and then io.EOF from Next.
C1_RoundTrip ==
    (wret.op # "new" /\ rd # "none" /\ \A i \in 1..Len(arch) : Complete(i)) =>
        /\ rd = "open"
        /\ Len(rhdrs) <= Len(arch)
        /\ \A i \in 1..Len(rhdrs) :
               ReadToEnd(i - 1) =>
                   /\ rhdrs[i] = arch[i].hdr
                   /\ IsPrefix(rdata[i], arch[i].data)
        /\ (rret.op = "Read" /\ rret.err = "EOF" /\ rhdrs # <<>>
               /\ ReadToEnd(Len(rhdrs) - 1)) =>
               rdata[Len(rhdrs)] = arch[Len(rhdrs)].data
        /\ (rret.op = "Next" /\ ~rret.hdr /\ ReadToEnd(Len(rhdrs))) =>
               (rret.err = "EOF" /\ Len(rhdrs) = Len(arch))

\* C2 (SpecW).  Padding: an entry that got exactly Size bytes of payload, in
\* any number of Write calls, has these Size bytes on the stream right after
\* its record, with no pad byte among them, and between them and the next
\* record one '\n' if Size is odd and nothing if Size is even.
C2_PaddingInvariant ==
    \A i \in 1..Len(arch) :
        Complete(i) =>
            /\ IsPrefix(arch[i].data, Segment(i))
            /\ i < Len(arch) => Segment(i) = arch[i].data \o Pad(arch[i].hdr.Size)

\* C3 (SpecW).  Write limit: the remaining budget is Size less the payload
\* bytes accepted since WriteHeader, so the accepted total never exceeds Size.
C3_WriteLimit ==
    arch # <<>> =>
        LET cur == arch[Len(arch)]
        IN  /\ Len(cur.data) <= cur.hdr.Size
            /\ w_n = cur.hdr.Size - Len(cur.data)

C5_SkipOnAdvance ==
    (rret.op = "Next" /\ Before < Len(arch) /\ WellFormed) =>
        /\ rret.hdr
        /\ rret.err = "nil"
        /\ rhdrs[Len(rhdrs)] = arch[Len(rhdrs)].hdr
        /\ pos = hoff[Len(rhdrs)] + HeaderByteSize
        /\ r_n = arch[Len(rhdrs)].hdr.Size

\* The second Header, returned after an entry of odd Size left unread: the
\* payload and the pad byte were both discarded.
C5_Witness ==
    /\ WellFormed
    /\ rret.op = "Next"
    /\ rret.hdr
    /\ Len(rhdrs) = 2
    /\ rhdrs[1].Size % 2 = 1
    /\ Len(rdata[1]) < rhdrs[1].Size

\* C6 (SpecR).  End of archive: on a whole archive, also one of the magic
\* bytes alone, a Next called after the last entry was returned gives io.EOF
\* and no Header, however much of the last payload was read.
C6_EndOfArchive ==
    (rret.op = "Next" /\ Before = Len(arch) /\ WellFormed) =>
        /\ rret.err = "EOF"
        /\ ~rret.hdr

\* io.EOF after a last entry of which one byte of two was read.
C6_Witness ==
    /\ WellFormed
    /\ rret.op = "Next"
    /\ rret.err = "EOF"
    /\ arch # <<>>
    /\ Len(rhdrs) = Len(arch)
    /\ Len(rdata[Len(rdata)]) > 0
    /\ Len(rdata[Len(rdata)]) < rhdrs[Len(rhdrs)].Size

\* C7 (SpecR).  On an archive cut anywhere, and for a caller who stops at
\* the first other error, Next returns io.EOF only when
\* the stream ends at a record boundary, that is after an entry's whole
\* payload and pad byte (or right after the magic bytes).
C7_EOFOnlyAtBoundary ==
    (rret.op = "Next" /\ rret.err = "EOF" /\ ~rfail /\ CutArchive) =>
        \E i \in 0..Len(arch) : Len(stream) = Len(Archive(SubSeq(arch, 1, i)))

\* C8 (SpecR).  Read stays in the entry: a Read returns at most
\* min(len, n) bytes, asks the stream for no more, lowers n by what the one
\* underlying Read delivered, and what the Reads of an entry deliver is a
\* prefix of its payload, at most Size bytes long.
C8_ReadWithinEntry ==
    /\ rret.op = "Read" =>
           /\ rret.n <= Min(rret.len, rret.rem)
           /\ rret.req <= Min(rret.len, rret.rem)
           /\ r_n = rret.rem - rret.n
           /\ pos = rret.pos0 + rret.n
    /\ (rhdrs # <<>> /\ CutArchive) =>
           \A i \in 1..Len(rhdrs) :
               /\ IsPrefix(rdata[i], arch[i].data)
               /\ Len(rdata[i]) <= rhdrs[i].Size

\* A Read that asked the stream for two bytes, got one, and returned it.
C8_Witness ==
    /\ rret.op = "Read"
    /\ rret.io
    /\ rret.req = 2
    /\ rret.n = 1
    /\ rret.err = "nil"
    /\ Len(rdata[Len(rdata)]) = 1

\* C9 (SpecR).  End of entry: a Read called with n = 0 returns (0, io.EOF),
\* does not call the underlying Read, moves nothing and leaves n = 0, so the
\* next Read finds the same; after Next returned a Header of Size 0, n = 0.
C9_EndOfEntry ==
    /\ (rret.op = "Read" /\ rret.rem = 0) =>
           /\ rret.n = 0
           /\ rret.err = "EOF"
           /\ ~rret.io
           /\ pos = rret.pos0
           /\ r_n = 0
    /\ (rret.op = "Next" /\ rret.hdr /\ rhdrs[Len(rhdrs)].Size = 0) => r_n = 0

\* The first Read of an entry of Size 0.
C9_Witness ==
    /\ rret.op = "Read"
    /\ rret.rem = 0
    /\ rret.len > 0
    /\ rhdrs # <<>>
    /\ rhdrs[Len(rhdrs)].Size = 0

\* C10 (SpecR).  NewReader reads the first 8 bytes of the stream and no
\* more; it returns a Reader exactly when the stream has 8 bytes and they
\* are "!<arch>\n", and an error and no Reader otherwise.  The Reader starts
\* with n = 0 and p = 0, and a Read before any Header returns (0, io.EOF).
C10_NewReader ==
    /\ rd # "none" =>
           (rd = "open" <=>
               (Len(stream) >= 8 /\ SubSeq(stream, 1, 8) = <<33, 60, 97, 114, 99, 104, 62, 10>>))
    /\ rret.op = "NewReader" =>
           /\ pos = Min(8, Len(stream))
           /\ rd = "open" => (rret.err = "nil" /\ r_n = 0 /\ r_p = 0)
           /\ rd = "nil" => rret.err # "nil"
    /\ (rret.op = "Read" /\ rhdrs = <<>>) =>
           (rret.n = 0 /\ rret.err = "EOF" /\ ~rret.io /\ pos = rret.pos0)

\* A Read before the first Next, on a stream that holds an entry.
C10_Witness ==
    /\ rd = "open"
    /\ rret.op = "Read"
    /\ rret.len > 0
    /\ rhdrs = <<>>
    /\ Len(stream) > 8

\* C11 (SpecT).  Terminator validation: Next returns a Header only for a
\* record whose last two bytes are '`' and '\n'; when either of them is
\* wrong, Next returns an error and no Header.
C11_TerminatorChecked ==
    (rret.op = "Next" /\ rret.hdr) =>
        (stream[pos - 1] = 96 /\ stream[pos] = 10)

\* C12 (SpecW).  WriteHeader starts no new entry while the current entry is
\* not fully written: every entry that is followed by another one got at
\* least its Size bytes of payload, and a WriteHeader called on an entry
\* with fewer returns an error.
C12_HeaderAfterFullEntry ==
    /\ \A i \in 1..(Len(arch) - 1) : Len(arch[i].data) >= arch[i].hdr.Size
    /\ (wret.op = "WriteHeader" /\ Len(arch) >= 2
           /\ Len(arch[Len(arch) - 1].data) < arch[Len(arch) - 1].hdr.Size) =>
           wret.err # "nil"

\* A Name the format can carry: at most 16 bytes, no trailing space.
Carried(nm) == Len(nm) <= 16 /\ (nm = <<>> \/ nm[Len(nm)] # 32)

\* C13 (SpecH).  Name round trip: a Header parsed by Next from the record
\* that WriteHeader wrote for entry k has entry k's Name, when that Name has
\* 16 bytes, or 0 bytes, or fewer than 16 bytes and no trailing space.
C13_NameRoundTrip ==
    (rret.op = "Next" /\ rret.hdr) =>
        \A k \in 1..Len(arch) :
            (pos = hoff[k] + 60 /\ Carried(arch[k].hdr.Name)) =>
                rhdrs[Len(rhdrs)].Name = arch[k].hdr.Name

\* s at the left of a field of w bytes, the rest of the field spaces.
Field(s, w) == [k \in 1..w |-> IF k <= Len(s) THEN s[k] ELSE 32]

\* The 60 bytes the stream holds from the offset at which entry i began.
Record(i) == SubSeq(stream, hoff[i] + 1, hoff[i] + 60)

\* C14 (SpecH).  Record layout: WriteHeader puts exactly 60 bytes on the
\* stream: Name in bytes 0-15, Date in 16-27, Uid in 28-33, Gid in 34-39,
\* Mode in 40-47 in octal, Size in 48-57, the numbers but Mode in decimal,
\* every field starting at its left and filled up with spaces, and '`' '\n'
\* in bytes 58-59 whatever the fields hold.
C14_RecordLayout ==
    /\ wret.op = "WriteHeader" => Len(stream) = hoff[Len(arch)] + 60
    /\ \A i \in 1..Len(arch) :
           LET rec == Record(i)
               h   == arch[i].hdr
           IN  /\ Len(rec) = 60
               /\ SubSeq(rec, 1, 16)  = Field(h.Name, 16)
               /\ SubSeq(rec, 17, 28) = Field(FormatInt(h.Date, 10), 12)
               /\ SubSeq(rec, 29, 34) = Field(FormatInt(h.Uid, 10), 6)
               /\ SubSeq(rec, 35, 40) = Field(FormatInt(h.Gid, 10), 6)
               /\ SubSeq(rec, 41, 48) = Field(FormatInt(h.Mode, 8), 8)
               /\ SubSeq(rec, 49, 58) = Field(FormatInt(h.Size, 10), 10)
               /\ rec[59] = 96
               /\ rec[60] = 10

\* A second record, of a Header whose Size does not fit its field.
C14_Witness ==
    /\ wret.op = "WriteHeader"
    /\ Len(arch) = 2
    /\ Len(FormatInt(arch[2].hdr.Size, 10)) > 10
    /\ arch[1].hdr.Mode = 33188

\* C15 (SpecW).  Pad rule: a successful Write of a buffer that is not empty
\* puts it on the stream followed by one '\n' when the payload bytes written for the entry since
\* WriteHeader, this buffer included, are odd in number, and by nothing when
\* they are even.
C15_PadRule ==
    (wret.op = "Write" /\ wret.err = "nil" /\ wret.len > 0) =>
        LET total == Len(arch[Len(arch)].data)
            sent  == Len(stream) - wret.pos0
        IN  IF total % 2 = 1
            THEN sent = wret.len + 1 /\ stream[Len(stream)] = 10
            ELSE sent = wret.len


\* C16 (SpecH).  Reader cursor invariant: the remaining-payload counter n is
\* never negative and the pending-pad flag p is always 0 or 1; after each
\* successful Next, n is the Size of the Header returned and p is Size mod 2
\* (0 or 1).
C16_CursorInvariant ==
    /\ r_n >= 0
    /\ r_p \in {0, 1}
    /\ (rret.op = "Next" /\ rret.hdr) =>
           /\ r_n = rhdrs[Len(rhdrs)].Size
           /\ r_p = rhdrs[Len(rhdrs)].Size % 2


\* C17 (SpecR).  Truncation detection: on a valid archive cut inside the 8
\* magic bytes NewReader returns an error and no Reader; on one cut inside a
\* 60-byte record the Next that reaches this record returns an error and no
\* Header; and a Header is returned only when all 60 bytes of its record were
\* in the stream and have been read.
C17_TruncationDetected ==
    /\ (rret.op = "NewReader" /\ Len(stream) < Len(MagicString) /\ CutArchive) =>
           (rret.err # "nil" /\ rd = "nil")
    /\ (rret.op = "Next" /\ Len(arch) > 0 /\ Before = Len(arch) - 1
           /\ Len(stream) < hoff[Len(arch)] + HeaderByteSize /\ CutArchive) =>
           (rret.err # "nil" /\ ~rret.hdr)
    /\ (rret.op = "Next" /\ rret.hdr /\ CutArchive) =>
           /\ Len(rhdrs) <= Len(arch)
           /\ pos = hoff[Len(rhdrs)] + HeaderByteSize
           /\ pos <= Len(stream)

\* The second record of an archive lacks its last byte, and Next, having
\* returned the first Header, fails on it with io.ErrUnexpectedEOF.
C17_Witness ==
    /\ rret.op = "Next" /\ rret.err = "ErrUnexpectedEOF" /\ ~rret.hdr
    /\ Len(arch) = 2 /\ Len(rhdrs) = 1
    /\ Len(stream) = hoff[2] + HeaderByteSize - 1
    /\ CutArchive


\* C18 (SpecW).  The count Write returns counts bytes of the caller's buffer
\* only: it is at most len(b), also when a pad byte went with the payload,
\* and 0 when the Write is refused.
C18_CountWithinBuffer ==
    wret.op = "Write" => (wret.n >= 0 /\ wret.n <= wret.len)

===========================================================================
